---- MODULE Spec2Model ----
(***************************************************************************)
(* Model of the `unused` command line tool: the token grouper of           *)
(* crates/token_search/src/token.rs and the orchestration of               *)
(* src/bin/unused.rs.                                                      *)
(*                                                                         *)
(* Strings that the code inspects character by character (tag names) are   *)
(* sequences of one-character strings; their order is the order of Rust's  *)
(* String (byte-wise lexicographic, CodePoint below).                      *)
(***************************************************************************)
EXTENDS Integers, Sequences, FiniteSets

VARIABLES
    input,            \* canonicalization: the raw name handed to strip_prepended_punctuation
    canonical,        \* canonicalization: its result
    recanonical,      \* canonicalization: the result of canonicalizing `canonical` again
    cpc,              \* canonicalization: "idle" | "start" | "once" | "twice"
    source,           \* the tag source as Token::all finds it (read result, parse result)
    tokens,           \* the Vec<Token> returned by Token::all
    tpc,              \* Token::all: "idle" | "start" | "done"
    evaluated,        \* index of the Token first_path was called on (0: none yet)
    run1,             \* what the first call of first_path returned ("none": not called)
    run2,             \* what the second call on the same Token returned
    cmd,              \* Flags, as parsed from the command line
    search_config,    \* TokenSearchConfig built from cmd
    analysis_filter,  \* AnalysisFilter built from cmd
    color_override,   \* the process-wide colored::control override
    env,              \* what the profile selection chain finds (home dir, file, contents)
    results,          \* TokenSearchResults: "none" | "generated"
    config,           \* the ProjectConfiguration main goes on with
    classified_with,  \* the configuration TokenUsageResults::calculate was given
    output,           \* "none" | "json" | "text"
    pc                \* main's position

vars == <<input, canonical, recanonical, cpc, source, tokens, tpc, evaluated, run1, run2,
          cmd, search_config, analysis_filter, color_override, env, results, config,
          classified_with, output, pc>>

canonVars == <<input, canonical, recanonical, cpc>>
tokenVars == <<source, tokens, tpc>>
pathVars  == <<evaluated, run1, run2>>
mainVars  == <<cmd, search_config, analysis_filter, color_override, env, results, config,
               classified_with, output, pc>>

-----------------------------------------------------------------------------
(* Bounds *)

MaxLen == 4          \* longest raw name handed to strip_prepended_punctuation
MaxEntries == 3      \* longest parse outcome handed to build_tokens_from_outcome
MaxFiletypes == 2    \* longest --only-filetypes / --except-filetypes list
MaxLikelihoods == 2  \* longest --likelihood list

Alphabet == {"#", ".", "a", "b"}

Strings(n) == UNION {[1..k -> Alphabet] : k \in 0..n}

SeqsUpTo(S, n) == UNION {[1..k -> S] : k \in 0..n}

CodePoint(c) == CASE c = "#" -> 35 [] c = "." -> 46 [] c = "a" -> 97 [] c = "b" -> 98

\* Rust's Ord for String: lexicographic by byte, a proper prefix first.
RECURSIVE StrLess(_, _)
StrLess(a, b) ==
    IF b = <<>> THEN FALSE
    ELSE IF a = <<>> THEN TRUE
    ELSE IF CodePoint(Head(a)) < CodePoint(Head(b)) THEN TRUE
    ELSE IF CodePoint(Head(a)) > CodePoint(Head(b)) THEN FALSE
    ELSE StrLess(Tail(a), Tail(b))

-----------------------------------------------------------------------------
(* crates/token_search/src/token.rs *)

\* Faulty variant: strips one leading punctuation character only (strip_prefix).
strip_one_punctuation(s) ==
    IF s # <<>> /\ Head(s) \in {"#", "."} THEN Tail(s) ELSE s

\* input.trim_start_matches(|c| c == '#' || c == '.').to_string()
RECURSIVE strip_prepended_punctuation(_)
strip_prepended_punctuation(s) ==
    IF s = <<>> THEN <<>>
    ELSE IF Head(s) = "#" \/ Head(s) = "." THEN strip_prepended_punctuation(Tail(s))
    ELSE s

\* The key closure of sorted_by_key.
sort_key(ct) == strip_prepended_punctuation(ct.name)

\* Faulty variant: groups by the raw name.
group_key_raw(ct) == ct.name

\* The key closure of group_by.
group_key(ct) == strip_prepended_punctuation(ct.name)

\* Insertion of e into a sorted sequence, after every element whose key is not greater.
RECURSIVE InsertByKey(_, _)
InsertByKey(e, s) ==
    IF s = <<>> THEN <<e>>
    ELSE IF StrLess(sort_key(e), sort_key(Head(s))) THEN <<e>> \o s
    ELSE <<Head(s)>> \o InsertByKey(e, Tail(s))

\* Insertion of e before the elements of equal key: what an unstable sort may do.
RECURSIVE InsertBeforeEqual(_, _)
InsertBeforeEqual(e, s) ==
    IF s = <<>> THEN <<e>>
    ELSE IF ~StrLess(sort_key(Head(s)), sort_key(e)) THEN <<e>> \o s
    ELSE <<Head(s)>> \o InsertBeforeEqual(e, Tail(s))

\* Faulty variant: a sort that is not stable.
RECURSIVE sorted_by_key_unstable(_)
sorted_by_key_unstable(s) ==
    IF s = <<>> THEN <<>>
    ELSE InsertBeforeEqual(s[Len(s)], sorted_by_key_unstable(SubSeq(s, 1, Len(s) - 1)))

\* Itertools::sorted_by_key: collects and calls the stable slice::sort_by_key.
RECURSIVE sorted_by_key(_)
sorted_by_key(s) ==
    IF s = <<>> THEN <<>>
    ELSE InsertByKey(s[Len(s)], sorted_by_key(SubSeq(s, 1, Len(s) - 1)))

\* Faulty variant: keeps the first element of every run only (dedup_by_key).
RECURSIVE group_by_first(_)
group_by_first(s) ==
    IF s = <<>> THEN <<>>
    ELSE LET k == group_key(Head(s))
             g == group_by_first(Tail(s))
         IN  IF g # <<>> /\ Head(g).token = k
             THEN <<[token |-> k, definitions |-> <<Head(s)>>]>> \o Tail(g)
             ELSE <<[token |-> k, definitions |-> <<Head(s)>>]>> \o g

\* Itertools::group_by followed by the map to Token: one Token per maximal run of
\* consecutive elements of equal key, its definitions in the run's order.
RECURSIVE group_by(_)
group_by(s) ==
    IF s = <<>> THEN <<>>
    ELSE LET k == group_key(Head(s))
             g == group_by(Tail(s))
         IN  IF g # <<>> /\ Head(g).token = k
             THEN <<[token |-> k, definitions |-> <<Head(s)>> \o Head(g).definitions]>>
                  \o Tail(g)
             ELSE <<[token |-> k, definitions |-> <<Head(s)>>]>> \o g

\* Faulty variant: groups without sorting first.
build_tokens_unsorted(outcome) == group_by(outcome)

build_tokens_from_outcome(outcome) == group_by(sorted_by_key(outcome))

\* Faulty variant: accepts a parse that left input unconsumed.
all_ignoring_rest(src) ==
    IF src.read = "Ok" /\ src.parse = "Ok"
    THEN build_tokens_from_outcome(src.outcome)
    ELSE <<>>

\* Token::all
all(src) ==
    IF src.read = "Ok"
    THEN IF src.parse = "Ok" /\ src.rest = ""
         THEN build_tokens_from_outcome(src.outcome)
         ELSE <<>>
    ELSE <<>>

defined_paths(t) == {t.definitions[i].file_path : i \in 1..Len(t.definitions)}

\* What defined_paths().iter().nth(0).unwrap() can return: the HashSet iterates in
\* the order of its randomly keyed hasher, so any member; a panic on the empty set.
first_path(t) == IF defined_paths(t) = {} THEN {"panic"} ELSE defined_paths(t)

-----------------------------------------------------------------------------
(* Inputs of the token grouper *)

TagNames == {<<"a">>, <<"#", "a">>, <<".", "#", "a">>, <<"b">>, <<"#">>,
             <<"a", "#">>, <<"a", "b">>}

FilePaths == {"a.rb", "b.rb"}

CtagItems == [name : TagNames, file_path : FilePaths]

Outcomes == SeqsUpTo(CtagItems, MaxEntries)

Unparsed == {[read |-> "Err", parse |-> "n/a", rest |-> "", outcome |-> <<>>],
             [read |-> "Ok", parse |-> "Err", rest |-> "", outcome |-> <<>>]}

Parsed == [read : {"Ok"}, parse : {"Ok"}, rest : {"", "!"}, outcome : Outcomes]

Consumed == {s \in Parsed : s.rest = ""}

Sources == Unparsed \cup Parsed

-----------------------------------------------------------------------------
(* src/bin/unused.rs *)

Languages == {"Ruby", "Rust"}

Likelihoods == {"High", "Medium", "Low"}

OrderFields == {"Token", "File"}

\* struct Flags; the list options hold what structopt collected, in order.
Flags == [no_color : BOOLEAN, json : BOOLEAN, no_progress : BOOLEAN,
          all_likelihoods : BOOLEAN,
          likelihoods : SeqsUpTo(Likelihoods, MaxLikelihoods),
          sort_order : OrderFields, reverse : BOOLEAN,
          only_filetypes : SeqsUpTo(Languages, MaxFiletypes),
          except_filetypes : SeqsUpTo(Languages, MaxFiletypes)]

\* The invocations that leave the list options at their defaults.
DefaultListFlags == {c \in Flags : /\ c.likelihoods = <<"High">>
                                   /\ c.only_filetypes = <<>>
                                   /\ c.except_filetypes = <<>>}

to_hash_set(list) == {list[i] : i \in 1..Len(list)}

TokenSearchConfig_default ==
    [display_progress |-> TRUE, language_restriction |-> [kind |-> "All", langs |-> {}]]

AnalysisFilter_default ==
    [usage_likelihood_filter |-> <<"High">>, order_field |-> "Token", descending |-> FALSE]

build_token_search_config(c) ==
    LET c0 == TokenSearchConfig_default
        c1 == IF c.no_progress THEN [c0 EXCEPT !.display_progress = FALSE] ELSE c0
        c2 == IF c.only_filetypes # <<>>
              THEN [c1 EXCEPT !.language_restriction =
                                  [kind |-> "Only", langs |-> to_hash_set(c.only_filetypes)]]
              ELSE c1
        c3 == IF c.except_filetypes # <<>>
              THEN [c2 EXCEPT !.language_restriction =
                                  [kind |-> "Except", langs |-> to_hash_set(c.except_filetypes)]]
              ELSE c2
    IN  c3

\* Faulty variant: the explicit list is applied after the all_likelihoods override.
build_analysis_filter_list_last(c) ==
    LET f0 == AnalysisFilter_default
        f1 == IF c.all_likelihoods
              THEN [f0 EXCEPT !.usage_likelihood_filter = <<"High", "Medium", "Low">>]
              ELSE f0
        f2 == IF c.likelihoods # <<>>
              THEN [f1 EXCEPT !.usage_likelihood_filter = c.likelihoods]
              ELSE f1
        f3 == [f2 EXCEPT !.order_field = c.sort_order]
        f4 == IF c.reverse THEN [f3 EXCEPT !.descending = TRUE] ELSE f3
    IN  f4

build_analysis_filter(c) ==
    LET f0 == AnalysisFilter_default
        f1 == IF c.likelihoods # <<>>
              THEN [f0 EXCEPT !.usage_likelihood_filter = c.likelihoods]
              ELSE f0
        f2 == IF c.all_likelihoods
              THEN [f1 EXCEPT !.usage_likelihood_filter = <<"High", "Medium", "Low">>]
              ELSE f1
        f3 == [f2 EXCEPT !.order_field = c.sort_order]
        f4 == IF c.reverse THEN [f3 EXCEPT !.descending = TRUE] ELSE f3
    IN  f4

\* Option<ProjectConfiguration>
None == [some |-> FALSE, name |-> ""]

Some(n) == [some |-> TRUE, name |-> n]

ProjectConfiguration_default == [name |-> "Default"]

\* What the chain home directory -> path -> file -> contents can find.
ProfileEnvs ==
    [home : {"None", "NotUtf8"}, file : {"n/a"}, contents : {"n/a"}]
    \cup [home : {"Utf8"}, file : {"missing", "unreadable"}, contents : {"n/a"}]
    \cup [home : {"Utf8"}, file : {"readable"}, contents : {"unparsable", "no_rails", "rails"}]

\* dirs::home_dir().and_then(|p| p.join(".unused.yml").to_str().map(..))
config_path(e) == IF e.home = "Utf8" THEN Some("~/.unused.yml") ELSE None

\* fs::read_to_string(filename)
read_file(e) == IF e.file = "readable" THEN "Ok" ELSE "Err"

\* ProjectConfigurations::load(&contents): the names of the profiles it holds.
ProjectConfigurations_load(contents) == IF contents = "rails" THEN {"Rails"} ELSE {}

\* ProjectConfigurations::get(name)
ProjectConfigurations_get(configs, n) == IF n \in configs THEN Some(n) ELSE None

calculate_config_by_results(e) ==
    IF config_path(e).some
    THEN IF read_file(e) = "Ok"
         THEN ProjectConfigurations_get(ProjectConfigurations_load(e.contents), "Rails")
         ELSE None
    ELSE None

\* Faulty variant: Option::unwrap in place of unwrap_or.
selected_config_unwrap(e) ==
    LET o == calculate_config_by_results(e)
    IN  IF o.some THEN [panicked |-> FALSE, config |-> [name |-> o.name]]
        ELSE [panicked |-> TRUE, config |-> ProjectConfiguration_default]

\* calculate_config_by_results(&results).unwrap_or(ProjectConfiguration::default())
selected_config(e) ==
    LET o == calculate_config_by_results(e)
    IN  [panicked |-> FALSE,
         config |-> IF o.some THEN [name |-> o.name] ELSE ProjectConfiguration_default]

-----------------------------------------------------------------------------
(* Initial states *)

CanonIdle == /\ input = <<>>
             /\ canonical = <<>>
             /\ recanonical = <<>>
             /\ cpc = "idle"

TokenIdle == /\ source = [read |-> "Err", parse |-> "n/a", rest |-> "", outcome |-> <<>>]
             /\ tokens = <<>>
             /\ tpc = "idle"

PathIdle == /\ evaluated = 0
            /\ run1 = "none"
            /\ run2 = "none"

MainStart == /\ search_config = TokenSearchConfig_default
             /\ analysis_filter = AnalysisFilter_default
             /\ color_override = "unset"
             /\ env = [home |-> "None", file |-> "n/a", contents |-> "n/a"]
             /\ results = "none"
             /\ config = ProjectConfiguration_default
             /\ classified_with = "none"
             /\ output = "none"

MainIdle == /\ cmd = [no_color |-> FALSE, json |-> FALSE, no_progress |-> FALSE,
                      all_likelihoods |-> FALSE, likelihoods |-> <<"High">>,
                      sort_order |-> "Token", reverse |-> FALSE,
                      only_filetypes |-> <<>>, except_filetypes |-> <<>>]
            /\ MainStart
            /\ pc = "idle"

InitCanon == /\ input \in Strings(MaxLen)
             /\ canonical = <<>>
             /\ recanonical = <<>>
             /\ cpc = "start"
             /\ TokenIdle /\ PathIdle /\ MainIdle

InitTokens == /\ source \in Sources
              /\ tokens = <<>>
              /\ tpc = "start"
              /\ CanonIdle /\ PathIdle /\ MainIdle

InitPaths == /\ source \in Consumed
             /\ tokens = <<>>
             /\ tpc = "start"
             /\ CanonIdle /\ PathIdle /\ MainIdle

InitCfg == /\ cmd \in Flags
           /\ MainStart
           /\ pc = "flags"
           /\ CanonIdle /\ TokenIdle /\ PathIdle

InitMain == /\ cmd \in DefaultListFlags
            /\ MainStart
            /\ pc = "start"
            /\ CanonIdle /\ TokenIdle /\ PathIdle

-----------------------------------------------------------------------------
(* Actions *)

Canonicalize ==
    /\ cpc = "start"
    /\ canonical' = strip_prepended_punctuation(input)
    /\ cpc' = "once"
    /\ UNCHANGED <<input, recanonical, tokenVars, pathVars, mainVars>>

Recanonicalize ==
    /\ cpc = "once"
    /\ recanonical' = strip_prepended_punctuation(canonical)
    /\ cpc' = "twice"
    /\ UNCHANGED <<input, canonical, tokenVars, pathVars, mainVars>>

TokenAll ==
    /\ tpc = "start"
    /\ tokens' = all(source)
    /\ tpc' = "done"
    /\ UNCHANGED <<source, canonVars, pathVars, mainVars>>

FirstPath ==
    /\ tpc = "done"
    /\ evaluated = 0
    /\ \E i \in 1..Len(tokens) :
         /\ evaluated' = i
         /\ run1' \in first_path(tokens[i])
    /\ UNCHANGED <<run2, canonVars, tokenVars, mainVars>>

FirstPathAgain ==
    /\ evaluated # 0
    /\ run2 = "none"
    /\ run2' \in first_path(tokens[evaluated])
    /\ UNCHANGED <<evaluated, run1, canonVars, tokenVars, mainVars>>

BuildTokenSearchConfig ==
    /\ pc = "flags"
    /\ search_config' = build_token_search_config(cmd)
    /\ pc' = "search_config"
    /\ UNCHANGED <<cmd, analysis_filter, color_override, env, results, config,
                   classified_with, output, canonVars, tokenVars, pathVars>>

BuildAnalysisFilter ==
    /\ pc = "search_config"
    /\ analysis_filter' = build_analysis_filter(cmd)
    /\ pc' = "analysis_filter"
    /\ UNCHANGED <<cmd, search_config, color_override, env, results, config,
                   classified_with, output, canonVars, tokenVars, pathVars>>

\* main, lines 63-69
MainConfigure ==
    /\ pc = "start"
    /\ color_override' = IF cmd.no_color THEN "off" ELSE color_override
    /\ search_config' = build_token_search_config(cmd)
    /\ analysis_filter' = build_analysis_filter(cmd)
    /\ pc' = "configured"
    /\ UNCHANGED <<cmd, env, results, config, classified_with, output,
                   canonVars, tokenVars, pathVars>>

\* main, line 71
MainGenerate ==
    /\ pc = "configured"
    /\ results' = "generated"
    /\ pc' = "searched"
    /\ UNCHANGED <<cmd, search_config, analysis_filter, color_override, env, config,
                   classified_with, output, canonVars, tokenVars, pathVars>>

\* main, line 72
MainSelectConfig ==
    /\ pc = "searched"
    /\ \E e \in ProfileEnvs :
         /\ env' = e
         /\ config' = selected_config(e).config
         /\ pc' = IF selected_config(e).panicked THEN "aborted" ELSE "selected"
    /\ UNCHANGED <<cmd, search_config, analysis_filter, color_override, results,
                   classified_with, output, canonVars, tokenVars, pathVars>>

\* main, line 77
MainCalculate ==
    /\ pc = "selected"
    /\ classified_with' = config.name
    /\ pc' = "classified"
    /\ UNCHANGED <<cmd, search_config, analysis_filter, color_override, env, results,
                   config, output, canonVars, tokenVars, pathVars>>

\* main, lines 79-143
MainPresent ==
    /\ pc = "classified"
    /\ output' = IF cmd.json THEN "json" ELSE "text"
    /\ pc' = "done"
    /\ UNCHANGED <<cmd, search_config, analysis_filter, color_override, env, results,
                   config, classified_with, canonVars, tokenVars, pathVars>>

NextCanon == Canonicalize \/ Recanonicalize

NextTokens == TokenAll

NextPaths == TokenAll \/ FirstPath \/ FirstPathAgain

NextCfg == BuildTokenSearchConfig \/ BuildAnalysisFilter

NextMain == MainConfigure \/ MainGenerate \/ MainSelectConfig \/ MainCalculate \/ MainPresent

SpecCanon == InitCanon /\ [][NextCanon]_vars

SpecTokens == InitTokens /\ [][NextTokens]_vars

SpecPaths == InitPaths /\ [][NextPaths]_vars

SpecCfg == InitCfg /\ [][NextCfg]_vars

SpecMain == InitMain /\ [][NextMain]_vars

Init == InitCanon \/ InitTokens \/ InitPaths \/ InitCfg \/ InitMain

Next == NextCanon \/ NextPaths \/ NextCfg \/ NextMain

Spec == Init /\ [][Next]_vars

-----------------------------------------------------------------------------
(* Properties *)

Range(s) == {s[i] : i \in 1..Len(s)}

Count(e, s) == Cardinality({i \in 1..Len(s) : s[i] = e})

\* How often e occurs among the definitions of the Tokens ts.
RECURSIVE TotalCount(_, _)
TotalCount(e, ts) ==
    IF ts = <<>> THEN 0 ELSE Count(e, Head(ts).definitions) + TotalCount(e, Tail(ts))

\* The number of definitions of the Tokens ts.
RECURSIVE TotalDefinitions(_)
TotalDefinitions(ts) ==
    IF ts = <<>> THEN 0 ELSE Len(Head(ts).definitions) + TotalDefinitions(Tail(ts))

Reorderings(s) ==
    {[i \in 1..Len(s) |-> s[p[i]]] :
        p \in {q \in [1..Len(s) -> 1..Len(s)] : \A i, j \in 1..Len(s) : q[i] = q[j] => i = j}}

Spellings(ts) == {ts[i].token : i \in 1..Len(ts)}

\* Token::all took the branch that groups: the read and the parse succeeded and the
\* parse consumed the whole input.
Grouped == /\ tpc = "done"
           /\ source.read = "Ok"
           /\ source.parse = "Ok"
           /\ source.rest = ""

\* C1: whenever both only_filetypes and except_filetypes are non-empty, the
\* language_restriction built by build_token_search_config is Only(set of
\* only_filetypes), never Except(...).
C1_OnlyWins ==
    (pc \in {"search_config", "analysis_filter"}
       /\ cmd.only_filetypes # <<>> /\ cmd.except_filetypes # <<>>)
    => search_config.language_restriction =
           [kind |-> "Only", langs |-> Range(cmd.only_filetypes)]

\* C2: whenever all_likelihoods is set, the likelihood filter built by
\* build_analysis_filter is exactly High, Medium, Low, whatever explicit list was given.
C2_AllLikelihoodsOverrides ==
    (pc = "analysis_filter" /\ cmd.all_likelihoods)
    => /\ analysis_filter.usage_likelihood_filter = <<"High", "Medium", "Low">>
       /\ Range(analysis_filter.usage_likelihood_filter) = Likelihoods

C2_Witness ==
    /\ pc = "analysis_filter"
    /\ cmd.all_likelihoods
    /\ cmd.likelihoods = <<"Low">>
    /\ analysis_filter.usage_likelihood_filter = <<"High", "Medium", "Low">>

\* C3: strip_prepended_punctuation is defined for every string, its result never
\* starts with '#' or '.', and applying it to its own result changes nothing.
C3_CanonicalizeIdempotent ==
    /\ cpc \in {"once", "twice"} =>
         /\ canonical \in Strings(Len(input))
         /\ (canonical # <<>> => Head(canonical) \notin {"#", "."})
    /\ cpc = "twice" => recanonical = canonical

C3_Witness ==
    /\ cpc = "twice"
    /\ Len(input) >= 3
    /\ input[1] = "#" /\ input[2] = "."
    /\ canonical # <<>>
    /\ canonical # input
    /\ recanonical = canonical

\* C4: build_tokens_from_outcome yields exactly one Token per distinct canonical
\* spelling of the input; entries whose names differ only by leading '#'/'.' share
\* a Token; and for every permutation of the input the set of spellings and each
\* Token's set of definitions are the same.
C4_OneTokenPerSpelling ==
    Grouped =>
      /\ Len(tokens) =
           Cardinality({strip_prepended_punctuation(e.name) : e \in Range(source.outcome)})
      /\ \A i, j \in 1..Len(tokens) : tokens[i].token = tokens[j].token => i = j
      /\ \A e \in Range(source.outcome) :
           \E i \in 1..Len(tokens) :
              /\ tokens[i].token = strip_prepended_punctuation(e.name)
              /\ e \in Range(tokens[i].definitions)
      /\ \A p \in Reorderings(source.outcome) :
           LET other == all([source EXCEPT !.outcome = p])
           IN  /\ Spellings(other) = Spellings(tokens)
               /\ \A i \in 1..Len(other) : \E j \in 1..Len(tokens) :
                     /\ other[i].token = tokens[j].token
                     /\ Range(other[i].definitions) = Range(tokens[j].definitions)

C4_Witness ==
    /\ Grouped
    /\ source.outcome = <<[name |-> <<"#", "a">>, file_path |-> "b.rb"],
                          [name |-> <<"b">>, file_path |-> "a.rb"],
                          [name |-> <<"a">>, file_path |-> "a.rb"]>>
    /\ Len(tokens) = 2
    /\ tokens[1].token = <<"a">>
    /\ Len(tokens[1].definitions) = 2

\* C5: two evaluations of first_path on the same Token return the same path.
C5_FirstPathDeterministic ==
    (evaluated # 0 /\ run2 # "none") => run1 = run2

\* C6: Token::all returns the empty sequence when the read fails, the parse fails or
\* the parse leaves input unconsumed, and returns Tokens only when the read
\* succeeded and the parse consumed the whole input.
C6_AllNeverFails ==
    tpc = "done" =>
      /\ (source.read # "Ok" \/ source.parse # "Ok" \/ source.rest # "") => tokens = <<>>
      /\ tokens # <<>> => (source.read = "Ok" /\ source.parse = "Ok" /\ source.rest = "")
      /\ (Grouped /\ source.outcome # <<>>) => tokens # <<>>

C6_Witness ==
    /\ tpc = "done"
    /\ source.read = "Ok" /\ source.parse = "Ok" /\ source.rest # ""
    /\ source.outcome # <<>>
    /\ tokens = <<>>

\* The chain of profile selection failed somewhere.
NoProfile(e) == \/ e.home # "Utf8"
                \/ e.file # "readable"
                \/ e.contents # "rails"

\* C7: in every failure mode of the chain home directory -> file read -> parse ->
\* lookup of "Rails", the run is not aborted, main goes on with the default
\* ProjectConfiguration, and classification and output follow.
C7_ProfileSelectionNeverAborts ==
    /\ pc # "aborted"
    /\ (pc \in {"selected", "classified", "done"} /\ NoProfile(env))
         => /\ ~calculate_config_by_results(env).some
            /\ config = ProjectConfiguration_default
    /\ pc \in {"classified", "done"} => classified_with = config.name
    /\ pc = "done" => output \in {"json", "text"}
    /\ pc # "done" => ENABLED NextMain

C7_Witness ==
    /\ pc = "done"
    /\ env.home = "Utf8" /\ env.file = "readable" /\ env.contents = "unparsable"
    /\ config = ProjectConfiguration_default
    /\ classified_with = "Default"
    /\ output = "text"

\* C8: the Tokens are in strictly ascending lexicographic order of spelling, and the
\* definitions of each Token are the input entries of that canonical spelling in
\* their input order.
C8_SortedStableRuns ==
    Grouped =>
      /\ \A i, j \in 1..Len(tokens) : i < j => StrLess(tokens[i].token, tokens[j].token)
      /\ \A i \in 1..Len(tokens) :
           tokens[i].definitions =
             SelectSeq(source.outcome,
                       LAMBDA e : strip_prepended_punctuation(e.name) = tokens[i].token)

C8_Witness ==
    /\ Grouped
    /\ source.outcome = <<[name |-> <<"b">>, file_path |-> "a.rb"],
                          [name |-> <<"#", "a">>, file_path |-> "b.rb"],
                          [name |-> <<"a">>, file_path |-> "a.rb"]>>
    /\ tokens[1].definitions = <<[name |-> <<"#", "a">>, file_path |-> "b.rb"],
                                 [name |-> <<"a">>, file_path |-> "a.rb"]>>
    /\ tokens[2].token = <<"b">>

\* C9: every Token has at least one definition, the raw name of each of its
\* definitions canonicalizes to the Token's spelling, and its set of defined paths
\* is not empty (first_path's unwrap finds a member).
C9_TokenInvariants ==
    Grouped =>
      \A i \in 1..Len(tokens) :
         /\ Len(tokens[i].definitions) >= 1
         /\ \A k \in 1..Len(tokens[i].definitions) :
               strip_prepended_punctuation(tokens[i].definitions[k].name) = tokens[i].token
         /\ "panic" \notin first_path(tokens[i])

C9_Witness ==
    /\ Grouped
    /\ \E k \in 1..Len(source.outcome) : source.outcome[k].name = <<"#">>
    /\ \E k \in 1..Len(source.outcome) : source.outcome[k].name = <<".", "#", "a">>
    /\ Len(tokens) = 2
    /\ tokens[1].token = <<>>

\* C10: the definitions of the Tokens, taken together, are the input entries as a
\* multiset, and the Tokens' definition counts add up to the input length.
C10_EntriesConserved ==
    Grouped =>
      /\ \A e \in CtagItems : TotalCount(e, tokens) = Count(e, source.outcome)
      /\ TotalDefinitions(tokens) = Len(source.outcome)

C10_Witness ==
    /\ Grouped
    /\ Len(source.outcome) = 3
    /\ source.outcome[1] = source.outcome[3]
    /\ source.outcome[1] # source.outcome[2]
    /\ strip_prepended_punctuation(source.outcome[1].name)
         = strip_prepended_punctuation(source.outcome[2].name)
    /\ Len(tokens) = 1
    /\ Len(tokens[1].definitions) = 3

====
